---- MODULE Spec2Model ----
(***************************************************************************)
(* Model of lib/rules/lint-attribute-indentation.js (class                 *)
(* AttributeSpacing): the configuration normaliser parseConfig, the        *)
(* applicability gate canApplyRule, the position calculators and           *)
(* validators, and the three visitor callbacks.                            *)
(*                                                                         *)
(* A JavaScript exception (TypeError, or the Error thrown by parseConfig)  *)
(* is modelled as an outcome with threw = TRUE: the diagnostics logged     *)
(* before it stay logged, nothing after it runs.                           *)
(***************************************************************************)
EXTENDS Integers, Sequences, FiniteSets, TLC

\* Bounds of the model.
MaxParams == 2      \* entries (positional + named, or attributes) of a node
MaxVisits == 2      \* callbacks and direct method calls of one activation

\* Program constants.
DefaultMaxLength == 80
DefaultIndentation == 2

VARIABLES config, node, last, visits

vars == <<config, node, last, visits>>

Loc(l, c) == [line |-> l, column |-> c]

Last(s) == s[Len(s)]

NoRecord == [x \in {} |-> 0]

(***************************************************************************)
(* Raw configuration values.  `map` is the own-property table of the value *)
(* (the empty table for everything that is not a mapping).                 *)
(***************************************************************************)
MappingKeys == {"open-invocation-max-len", "indentation", "process-elements"}

\* { "open-invocation-max-len"?: 5, "indentation"?: 3, "process-elements"?: pe }
Mapping(ks, pe) ==
    [k \in ks |-> IF k = "open-invocation-max-len" THEN 5
                  ELSE IF k = "indentation" THEN 3
                  ELSE pe]

Mappings ==
    { Mapping(ks, pe) :
        ks \in { {}, {"open-invocation-max-len"}, {"indentation"},
                 {"process-elements"}, MappingKeys },
        pe \in BOOLEAN }

Raw(shape, bool, map) == [shape |-> shape, bool |-> bool, map |-> map]

RawConfigs ==
    { Raw("boolean", b, NoRecord) : b \in BOOLEAN }
    \cup { Raw(s, FALSE, NoRecord) : s \in {"undefined", "null", "number", "string", "array"} }
    \cup { Raw("mapping", FALSE, m) : m \in Mappings }

\* JavaScript's typeof: null and arrays are objects.
TypeOf(raw) ==
    IF raw.shape \in {"null", "array", "mapping"} THEN "object" ELSE raw.shape

Returned(kind, options) == [kind |-> kind, options |-> options, error |-> "none"]
Thrown(error) == [kind |-> "throw", options |-> NoRecord, error |-> error]

\* result.<field> = config[<key>] when the key is in config
Override(result, raw, key, field) ==
    IF key \in DOMAIN raw.map
    THEN [f \in (DOMAIN result) \cup {field} |->
             IF f = field THEN raw.map[key] ELSE result[f]]
    ELSE result

parseConfig(raw) ==
    LET configType == TypeOf(raw) IN
    IF configType = "boolean"
    THEN IF raw.bool
         THEN Returned("options", [maxLength |-> DefaultMaxLength,
                                   indentation |-> DefaultIndentation,
                                   processElements |-> TRUE])
         ELSE Returned("disabled", NoRecord)
    ELSE IF configType = "object"
    THEN IF raw.shape = "null"
         THEN Thrown("TypeError")     \* 'open-invocation-max-len' in null
         ELSE LET r0 == [maxLength |-> DefaultMaxLength,
                         indentation |-> DefaultIndentation]
                  r1 == Override(r0, raw, "open-invocation-max-len", "maxLength")
                  r2 == Override(r1, raw, "indentation", "indentation")
                  r3 == Override(r2, raw, "process-elements", "processElements")
              IN Returned("options", r3)
    ELSE IF configType = "undefined"
    THEN Returned("disabled", NoRecord)
    ELSE Thrown("usage")

\* if (this.config.processElements)
ProcessElements(cfg) ==
    "processElements" \in DOMAIN cfg /\ cfg.processElements = TRUE


(***************************************************************************)
(* Syntax nodes, as the template parser hands them to the rule.            *)
(*                                                                         *)
(* An entry is a positional argument, a hash pair or an attribute:         *)
(*   start, end    param.loc.start, param.loc.end                          *)
(*   type          param.type                                              *)
(*   hasValue      param.value is truthy                                   *)
(*   valueType     param.value.type                                        *)
(*   valueEndLine  param.value.loc.end.line                                *)
(*   named         param[namePath] is truthy (original / key / name)       *)
(*   hasPath       param.path is defined                                   *)
(***************************************************************************)
Entry(type, start, end, hasValue, valueType, named, hasPath) ==
    [type |-> type, start |-> start, end |-> end, hasValue |-> hasValue,
     valueType |-> valueType, valueEndLine |-> end.line,
     named |-> named, hasPath |-> hasPath]

\* the end of an entry that starts at (l, c): three characters on, or on the
\* next line when the entry spans two lines
EntryEnd(l, c, multi) == IF multi THEN Loc(l + 1, c + 1) ELSE Loc(l, c + 3)

\* a path such as  firstName
PathParam(l, c) ==
    Entry("PathExpression", Loc(l, c), EntryEnd(l, c, FALSE), FALSE, "none", TRUE, FALSE)
\* the literal  null : original is null, there is no value and no path
NullParam(l, c) ==
    Entry("NullLiteral", Loc(l, c), EntryEnd(l, c, FALSE), FALSE, "none", FALSE, FALSE)
\* a sub-expression  (helper arg) : no original, a path
SubExprParam(l, c, multi) ==
    Entry("SubExpression", Loc(l, c), EntryEnd(l, c, multi), FALSE, "none", FALSE, TRUE)
\* key=value
HashPair(l, c, valueType, multi) ==
    Entry("HashPair", Loc(l, c), EntryEnd(l, c, multi), TRUE, valueType, TRUE, FALSE)
\* name="text"  or  name={{helper}}
AttrNode(l, c, valueType, multi) ==
    Entry("AttrNode", Loc(l, c), EntryEnd(l, c, multi), TRUE, valueType, TRUE, FALSE)

Child(type, start, end) == [type |-> type, start |-> start, end |-> end]

NoLoc == Loc(0, 0)

Node(type, start, end) ==
    [type |-> type, start |-> start, end |-> end,
     synthetic |-> FALSE,            \* node.path.loc.source === '(synthetic)'
     pathLen |-> 3,                  \* node.path.original.length
     params |-> <<>>, pairs |-> <<>>,
     hashEnd |-> NoLoc,              \* node.hash.loc.end
     programStart |-> NoLoc,         \* node.program.loc.start
     blockParams |-> 0,              \* node.program.blockParams.length
     bodyLineIndent |-> 0,           \* leading white space of the body-start line
     tailRestBlank |-> TRUE,         \* nothing but white space after the arguments
     attributes |-> <<>>, children |-> <<>>,
     tagLen |-> 3,                   \* node.tag.length
     selfClosing |-> FALSE]

(***************************************************************************)
(* The applicability gate.                                                 *)
(***************************************************************************)
getEndLocationForOpen(n) ==
    IF n.type = "BlockStatement" THEN n.programStart
    ELSE IF n.type = "ElementNode" /\ Len(n.children) > 0 THEN n.children[1].start
    ELSE n.end

\* mutant: a width of exactly maxLength passes the gate
canApplyRuleAtLeast(n, cfg) ==
    LET end == getEndLocationForOpen(n)
        start == n.start
    IN IF start.line = end.line
       THEN (end.column - start.column) >= cfg.maxLength
       ELSE TRUE

canApplyRule(n, cfg) ==
    LET end == getEndLocationForOpen(n)
        start == n.start
    IN IF start.line = end.line
       THEN (end.column - start.column) > cfg.maxLength
       ELSE TRUE

(***************************************************************************)
(* Diagnostics: what this.log receives.  The message embeds the actual and *)
(* the expected coordinate.                                                *)
(***************************************************************************)
Diag(what, actual, expected) ==
    [what |-> what, line |-> actual.line, column |-> actual.column,
     expectedLine |-> expected.line, expectedColumn |-> expected.column]

(***************************************************************************)
(* iterateParams.  `which` selects the sequence of the node that is        *)
(* iterated ("positional": node.params, "attribute": node.hash.pairs,      *)
(* "htmlAttribute": node.attributes).  The result carries the returned     *)
(* line, the diagnostics logged, the expected coordinate of every          *)
(* comparison made, the node as the call leaves it, and whether the call   *)
(* threw.                                                                  *)
(***************************************************************************)
ParamsOf(n, which) ==
    IF which = "positional" THEN n.params
    ELSE IF which = "htmlAttribute" THEN n.attributes
    ELSE n.pairs

paramType(which) ==
    IF which = "positional" THEN "positional param"
    ELSE IF which = "htmlAttribute" THEN "htmlAttribute"
    ELSE "attribute"

\* const type = param.value ? param.value.type : param.type
ValueTypeOf(param) == IF param.hasValue THEN param.valueType ELSE param.type

\* mutant: a sub-expression absorbs its end line even when it is on one line
AbsorbedLineOfAnySubExpression(param, expectedLineStart) ==
    IF ValueTypeOf(param) = "SubExpression" THEN param.end.line
    ELSE IF ValueTypeOf(param) = "MustacheStatement" THEN param.valueEndLine
    ELSE expectedLineStart

\* the line the running expectation is moved to before it is incremented
AbsorbedLine(param, expectedLineStart) ==
    IF ValueTypeOf(param) = "SubExpression"
    THEN IF param.start.line # param.end.line THEN param.end.line ELSE expectedLineStart
    ELSE IF ValueTypeOf(param) = "MustacheStatement" THEN param.valueEndLine
    ELSE expectedLineStart

\* expectedLineStart !== actual.line || expectedColumnStart !== actual.column
Differs(actual, expected) ==
    actual.line # expected.line \/ actual.column # expected.column

\* one turn of params.forEach
ParamStep(param, which, st, expectedColumnStart) ==
    LET expected == Loc(st.line, expectedColumnStart)
        compared == Append(st.expected, expected)
    IN IF Differs(param.start, expected)
       THEN IF ~param.named /\ ~param.hasPath
            THEN \* param.path.original with param.path undefined
                 [st EXCEPT !.threw = TRUE, !.expected = compared]
            ELSE [st EXCEPT !.line = AbsorbedLine(param, st.line) + 1,
                            !.logs = Append(@, Diag(paramType(which), param.start, expected)),
                            !.expected = compared]
       ELSE [st EXCEPT !.line = AbsorbedLine(param, st.line) + 1,
                       !.expected = compared]

RECURSIVE ForEachParam(_, _, _, _, _)
ForEachParam(params, i, which, st, expectedColumnStart) ==
    IF i > Len(params) \/ st.threw THEN st
    ELSE ForEachParam(params, i + 1, which,
                      ParamStep(params[i], which, st, expectedColumnStart),
                      expectedColumnStart)

\* mutant: the correction moves the end of the argument instead of its start
SyntheticCorrectionOfEnd(n) ==
    [n EXCEPT !.params[1].end.column = @ - 1]

\* node.params[0].loc.start.column--
SyntheticCorrection(n) ==
    [n EXCEPT !.params[1].start.column = @ - 1]

iterateParams(which, expectedLineStart, expectedColumnStart, n) ==
    LET shift == which = "positional" /\ n.synthetic
        line0 == IF shift THEN expectedLineStart - 1 ELSE expectedLineStart
        fix == shift /\ n.type = "BlockStatement"
        st0 == [line |-> line0, logs |-> <<>>, expected |-> <<>>,
                threw |-> FALSE, node |-> n]
    IN IF fix /\ Len(n.params) = 0
       THEN [st0 EXCEPT !.threw = TRUE]      \* node.params[0] is undefined
       ELSE LET n1 == IF fix THEN SyntheticCorrection(n) ELSE n
            IN ForEachParam(ParamsOf(n1, which), 1, which,
                            [st0 EXCEPT !.node = n1], expectedColumnStart)

\* mutant: the first entry is expected on the line of the node itself
validateParamsFromStartLine(n, cfg) ==
    LET expectedColumnStart == n.start.column + cfg.indentation
        expectedLineStart == n.start.line
    IN IF n.type = "ElementNode"
       THEN iterateParams("htmlAttribute", expectedLineStart, expectedColumnStart, n)
       ELSE LET r1 == iterateParams("positional", expectedLineStart, expectedColumnStart, n)
            IN IF r1.threw THEN r1
               ELSE LET r2 == iterateParams("attribute", r1.line, expectedColumnStart, r1.node)
                    IN [r2 EXCEPT !.logs = r1.logs \o @,
                                  !.expected = r1.expected \o @]

validateParams(n, cfg) ==
    LET expectedColumnStart == n.start.column + cfg.indentation
        expectedLineStart == n.start.line + 1
    IN IF n.type = "ElementNode"
       THEN iterateParams("htmlAttribute", expectedLineStart, expectedColumnStart, n)
       ELSE LET r1 == iterateParams("positional", expectedLineStart, expectedColumnStart, n)
            IN IF r1.threw THEN r1
               ELSE LET r2 == iterateParams("attribute", r1.line, expectedColumnStart, r1.node)
                    IN [r2 EXCEPT !.logs = r1.logs \o @,
                                  !.expected = r1.expected \o @]


(***************************************************************************)
(* Closing delimiters.  Each validator yields the two coordinates it       *)
(* compared and the diagnostics it logged.                                 *)
(***************************************************************************)
Compared(what, actual, expected) ==
    [actual |-> actual, expected |-> expected,
     logs |-> IF Differs(actual, expected)
              THEN <<Diag(what, actual, expected)>> ELSE <<>>]

\* mutant: the closing delimiter is taken to be two characters wide everywhere
validateCloseBraceTwoWide(n, expectedStartLine) ==
    LET end == getEndLocationForOpen(n)
        actualStartLocation == Loc(end.line, end.column - 2)
        expectedStartLocation == Loc(expectedStartLine, n.start.column)
    IN Compared(IF n.type = "ElementNode" THEN "close bracket" ELSE "close curly braces",
                actualStartLocation, expectedStartLocation)

validateCloseBrace(n, expectedStartLine) ==
    LET end == getEndLocationForOpen(n)
        actualColumnStartLocation ==
            IF n.type = "ElementNode" /\ ~n.selfClosing THEN 1 ELSE 2
        actualStartLocation == Loc(end.line, end.column - actualColumnStartLocation)
        expectedStartLocation == Loc(expectedStartLine, n.start.column)
    IN Compared(IF n.type = "ElementNode" THEN "close bracket" ELSE "close curly braces",
                actualStartLocation, expectedStartLocation)

\* mutant: the closing tag is measured without its closing bracket
validateClosingTagWithoutBracket(n, expectedStartLine) ==
    LET actualColumnStartLocation == 2 + n.tagLen
        actualStartLocation == Loc(n.end.line, n.end.column - actualColumnStartLocation)
        expectedStartLocation == Loc(expectedStartLine, n.start.column)
    IN Compared("close tag", actualStartLocation, expectedStartLocation)

validateClosingTag(n, expectedStartLine) ==
    LET actualColumnStartLocation == 3 + n.tagLen
        actualStartLocation == Loc(n.end.line, n.end.column - actualColumnStartLocation)
        expectedStartLocation == Loc(expectedStartLine, n.start.column)
    IN Compared("close tag", actualStartLocation, expectedStartLocation)

(***************************************************************************)
(* The block-parameter clause  as |x y|.  The source text is read through  *)
(* sourceForNode and this.source; what the rule takes from it is the       *)
(* leading white space of the body-start line (bodyLineIndent) and whether *)
(* anything but white space follows the arguments on their last line       *)
(* (tailRestBlank).  `defined` is FALSE when no branch assigns `actual`.   *)
(***************************************************************************)
\* mutant: the positional arguments take precedence over the named ones
ParamOrHashPairEndLocPositionalFirst(n) ==
    IF Len(n.params) > 0 THEN Last(n.params).end
    ELSE n.hashEnd

\* paramOrHashPairEndLoc
ParamOrHashPairEndLoc(n) ==
    IF Len(n.pairs) > 0 THEN n.hashEnd
    ELSE Last(n.params).end

getBlockParamStartLoc(n) ==
    LET programStartLoc == n.programStart
        nodeStart == n.start
    IN IF Len(n.params) = 0 /\ Len(n.pairs) = 0
       THEN [expected |-> Loc(nodeStart.line + 1, nodeStart.column),
             actual |-> IF nodeStart.line = programStartLoc.line
                        THEN Loc(nodeStart.line, 3 + n.pathLen)    \* `{{#${path}`.length
                        ELSE Loc(programStartLoc.line, n.bodyLineIndent),
             defined |-> TRUE]
       ELSE LET tail == ParamOrHashPairEndLoc(n)
            IN [expected |-> Loc(tail.line + 1, n.start.column),
                actual |-> IF tail.line = programStartLoc.line THEN tail
                           ELSE IF tail.line < programStartLoc.line
                           THEN IF ~n.tailRestBlank THEN tail
                                ELSE Loc(programStartLoc.line, n.bodyLineIndent)
                           ELSE NoLoc,
                defined |-> tail.line <= programStartLoc.line]

validateBlockParams(n) ==
    LET location == getBlockParamStartLoc(n)
    IN IF ~location.defined
       THEN [actual |-> location.actual, expected |-> location.expected,
             logs |-> <<>>, threw |-> TRUE]          \* actual.line of undefined
       ELSE [actual |-> location.actual, expected |-> location.expected,
             logs |-> Compared("block params", location.actual, location.expected).logs,
             threw |-> FALSE]

(***************************************************************************)
(* What one callback did: the validators it called with their results, in  *)
(* `called`, `vp` (validateParams), `cb` (validateCloseBrace), `ct`        *)
(* (validateClosingTag) and `bp` (validateBlockParams); every diagnostic   *)
(* logged; the node as the callback leaves it.                             *)
(***************************************************************************)
Nothing(n) ==
    [called |-> {}, vp |-> NoRecord, cb |-> NoRecord, ct |-> NoRecord, bp |-> NoRecord,
     logs |-> <<>>, threw |-> FALSE, node |-> n]

WithParams(out, vp) ==
    [out EXCEPT !.called = @ \cup {"validateParams"}, !.vp = vp,
                !.logs = @ \o vp.logs, !.threw = vp.threw, !.node = vp.node]

WithCloseBrace(out, cb) ==
    [out EXCEPT !.called = @ \cup {"validateCloseBrace"}, !.cb = cb, !.logs = @ \o cb.logs]

WithClosingTag(out, ct) ==
    [out EXCEPT !.called = @ \cup {"validateClosingTag"}, !.ct = ct, !.logs = @ \o ct.logs]

WithBlockParams(out, bp) ==
    [out EXCEPT !.called = @ \cup {"validateBlockParams"}, !.bp = bp,
                !.logs = @ \o bp.logs, !.threw = bp.threw]

validateNonBlockForm(n, cfg) ==
    IF Len(n.params) > 0 \/ Len(n.pairs) > 0
    THEN LET o1 == WithParams(Nothing(n), validateParams(n, cfg))
         IN IF o1.threw THEN o1
            ELSE WithCloseBrace(o1, validateCloseBrace(o1.node, o1.vp.line))
    ELSE Nothing(n)

validateBlockForm(n, cfg) ==
    LET o1 == IF Len(n.params) > 0 \/ Len(n.pairs) > 0
              THEN WithParams(Nothing(n), validateParams(n, cfg))
              ELSE Nothing(n)
    IN IF o1.threw THEN o1
       ELSE IF n.blockParams > 0
       THEN WithBlockParams(o1, validateBlockParams(o1.node))
       ELSE o1

\* the body of the ElementNode callback under the gate
validateElement(n, cfg) ==
    LET o1 == IF Len(n.attributes) > 0
              THEN LET p == WithParams(Nothing(n), validateParams(n, cfg))
                   IN IF p.threw THEN p
                      ELSE WithCloseBrace(p, validateCloseBrace(p.node, p.vp.line))
              ELSE Nothing(n)
    IN IF o1.threw THEN o1
       ELSE IF Len(n.children) > 0
       THEN LET lastChild == Last(n.children)
                expectedStartLine == IF lastChild.type = "BlockStatement"
                                     THEN lastChild.end.line + 1
                                     ELSE lastChild.end.line
            IN WithClosingTag(o1, validateClosingTag(o1.node, expectedStartLine))
       ELSE o1


(***************************************************************************)
(* The templates of the model.  Entries come in source order and do not    *)
(* overlap; the opening invocation closes after its last entry; the body   *)
(* and the children follow it; a self-closing element has no children.     *)
(***************************************************************************)
Before(a, b) == a.line < b.line \/ (a.line = b.line /\ a.column < b.column)

EntryLines == 2..4
EntryColumns == {3, 4}
Positions == EntryLines \X EntryColumns

PositionalEntries ==
    { PathParam(p[1], p[2]) : p \in Positions }
    \cup { NullParam(p[1], p[2]) : p \in {<<2, 3>>, <<3, 3>>} }
    \cup { SubExprParam(p[1], p[2], m) : p \in {<<2, 3>>, <<3, 4>>}, m \in BOOLEAN }

NamedEntries ==
    { HashPair(p[1], p[2], "PathExpression", FALSE) : p \in Positions }
    \cup { HashPair(p[1], p[2], "SubExpression", m) : p \in {<<2, 3>>, <<3, 3>>}, m \in BOOLEAN }

AttributeEntries ==
    { AttrNode(p[1], p[2], "TextNode", FALSE) : p \in Positions }
    \cup { AttrNode(p[1], p[2], "MustacheStatement", m) : p \in {<<2, 3>>, <<3, 3>>}, m \in BOOLEAN }

\* the sequences of at most n entries of S in which every entry starts after
\* the one before it ends and no positional argument follows a named one
CanFollow(e, s) ==
    \/ Len(s) = 0
    \/ /\ Before(Last(s).end, e.start)
       /\ (Last(s).type = "HashPair" => e.type = "HashPair")

RECURSIVE InOrder(_, _)
InOrder(S, n) ==
    IF n = 0 THEN { <<>> }
    ELSE LET shorter == InOrder(S, n - 1)
         IN shorter \cup
            UNION { { Append(s, e) : e \in { x \in S : CanFollow(x, s) } } : s \in shorter }

IsPair(e) == e.type = "HashPair"
IsPositional(e) == e.type # "HashPair"

\* positional arguments followed by named arguments, MaxParams entries at most
ArgumentLists ==
    { <<SelectSeq(s, IsPositional), SelectSeq(s, IsPair)>> :
        s \in InOrder(PositionalEntries \cup NamedEntries, MaxParams) }

AttributeLists == InOrder(AttributeEntries, MaxParams)

WithArguments(n, a) ==
    [n EXCEPT !.params = a[1], !.pairs = a[2],
              !.hashEnd = IF Len(a[2]) > 0 THEN Last(a[2]).end ELSE NoLoc]

\* where a node of several lines starts
Starts == { Loc(1, 1), Loc(2, 0) }

Offset(start, d) == Loc(start.line + d[1], start.column + d[2])

\* inline invocations that span several lines
MustacheLayouts ==
    { [WithArguments(Node("MustacheStatement", s, Offset(s, e)), a)
          EXCEPT !.synthetic = syn] :
        s \in Starts, a \in ArgumentLists, e \in (2..4) \X {2, 3}, syn \in BOOLEAN }

\* block forms that span several lines: without a block-parameter clause, or
\* with one that ends where the body starts
BlockBodies ==
    { [programStart |-> Loc(5, 3), blockParams |-> 0, bodyLineIndent |-> 0, tailRestBlank |-> TRUE] }
    \cup { [programStart |-> Loc(l, 16), blockParams |-> 1, bodyLineIndent |-> w, tailRestBlank |-> b] :
             l \in 2..5, w \in {0, 1}, b \in BOOLEAN }

BlockLayouts ==
    { [WithArguments(Node("BlockStatement", s, Loc(8, 7)), a)
          EXCEPT !.synthetic = syn, !.programStart = body.programStart,
                 !.blockParams = body.blockParams,
                 !.bodyLineIndent = body.bodyLineIndent,
                 !.tailRestBlank = body.tailRestBlank] :
        s \in Starts, a \in ArgumentLists, body \in BlockBodies, syn \in BOOLEAN }

\* the children of an element: none, one, or a text node and a last child
ChildLists ==
    { <<>> }
    \cup { <<Child(t, Loc(f[1], f[2]), Loc(l, 2))>> :
              t \in {"TextNode", "BlockStatement"}, f \in (4..5) \X {1, 2}, l \in {5, 6} }
    \cup { <<Child("TextNode", Loc(5, 1), Loc(5, 9)), Child(t, Loc(6, 1), Loc(6, 9))>> :
              t \in {"TextNode", "BlockStatement"} }

\* <tag ...>...</tag> with tag.length = 3: the closing tag is six wide
ElementEndOffsets(c) == IF c = <<>> THEN (2..4) \X {1, 2} ELSE (4..5) \X {6, 7}

ElementLayouts ==
    { n \in { [Node("ElementNode", s, Offset(s, d))
                 EXCEPT !.attributes = as, !.children = c, !.selfClosing = sc] :
                s \in Starts, c \in ChildLists, as \in AttributeLists, sc \in BOOLEAN,
                d \in (2..5) \X {1, 2, 6, 7} } :
        \E d \in ElementEndOffsets(n.children) : n.end = Offset(n.start, d) }

\* opening invocations on one line, of width maxLength - 1 .. maxLength + 1
Widths == {4, 5, 6, 79, 80, 81}

OneLineArguments ==
    { <<<<>>, <<>>>>,
      <<<<PathParam(1, 7)>>, <<>>>>,
      <<<<>>, <<HashPair(1, 7, "PathExpression", FALSE)>>>> }

OneLiners ==
    { [WithArguments(Node("MustacheStatement", Loc(1, c), Loc(1, c + w)), a)
          EXCEPT !.synthetic = syn] :
        c \in {0, 1}, w \in Widths, a \in OneLineArguments, syn \in BOOLEAN }
    \cup { [WithArguments(Node("BlockStatement", Loc(1, c), Loc(3, c + 6)), a)
              EXCEPT !.programStart = Loc(1, c + w), !.blockParams = bp,
                     !.synthetic = syn] :
             c \in {0, 1}, w \in Widths, a \in OneLineArguments, bp \in {0, 1},
             syn \in BOOLEAN }
    \cup UNION { { [Node("ElementNode", Loc(1, c), e)
                      EXCEPT !.attributes = as, !.children = ch] :
                     as \in { <<>>, <<AttrNode(1, 7, "TextNode", FALSE)>> },
                     ch \in { <<>>, <<Child("TextNode", Loc(1, c + w), Loc(2, 1))>> },
                     e \in { Loc(1, c + w), Loc(2, 7), Loc(2, 8) } } :
                 c \in {0, 1}, w \in Widths }

\* the parser's output is well formed
WellFormed(n) ==
    LET entries == n.params \o n.pairs \o n.attributes
        open == getEndLocationForOpen(n)
        name == Loc(n.start.line, n.start.column + 5)   \* {{foo or <div
    IN /\ Len(entries) > 0 => Before(name, entries[1].start)
       /\ Before(IF Len(entries) = 0 THEN name ELSE Last(entries).end, open)
       /\ ~Before(n.end, open)
       /\ n.selfClosing => Len(n.children) = 0
       /\ Len(n.children) > 0 => Before(Last(n.children).end, n.end)

Nodes == { n \in MustacheLayouts \cup BlockLayouts \cup ElementLayouts \cup OneLiners :
             WellFormed(n) }

(***************************************************************************)
(* State.                                                                  *)
(*   config  this.config, the result of parseConfig                        *)
(*   node    the node of the template the walker hands to the rule         *)
(*   last    the last call: its input, the gate, and what it did           *)
(*   visits  callbacks run so far                                          *)
(***************************************************************************)
NoConfig == [kind |-> "none", options |-> NoRecord, error |-> "none"]
NoNode == Node("none", NoLoc, NoLoc)
NoRaw == Raw("undefined", FALSE, NoRecord)

\* what a call returns: a line, or undefined (also when it threw)
Undefined == [defined |-> FALSE, line |-> 0]
Line(l) == [defined |-> TRUE, line |-> l]

Call(op, raw, before, gate, out, returned) ==
    [op |-> op, raw |-> raw, before |-> before, gate |-> gate, out |-> out,
     returned |-> returned]

Init ==
    /\ config = NoConfig
    /\ node = NoNode
    /\ last = Call("none", NoRaw, NoNode, FALSE, Nothing(NoNode), Undefined)
    /\ visits = 0

\* the rule is constructed: this.config = this.parseConfig(config)
ParseConfig ==
    /\ config.kind = "none"
    /\ \E raw \in RawConfigs :
          /\ config' = parseConfig(raw)
          /\ last' = Call("parseConfig", raw, NoNode, FALSE, Nothing(NoNode), Undefined)
    /\ UNCHANGED <<node, visits>>

\* the parser hands over a template; only an enabled rule gets to see it
Preprocess ==
    /\ config.kind = "options"
    /\ node.type = "none"
    /\ \E n \in Nodes :
          /\ node' = n
          /\ last' = Call("preprocess", NoRaw, n, FALSE, Nothing(n), Undefined)
    /\ UNCHANGED <<config, visits>>

BlockStatement ==
    /\ config.kind = "options"
    /\ node.type = "BlockStatement"
    /\ visits < MaxVisits
    /\ LET gate == canApplyRule(node, config.options)
           out == IF gate THEN validateBlockForm(node, config.options)
                  ELSE Nothing(node)
       IN /\ node' = out.node
          /\ last' = Call("BlockStatement", NoRaw, node, gate, out, Undefined)
    /\ visits' = visits + 1
    /\ UNCHANGED config

MustacheStatement ==
    /\ config.kind = "options"
    /\ node.type = "MustacheStatement"
    /\ visits < MaxVisits
    /\ LET gate == canApplyRule(node, config.options)
           out == IF gate THEN validateNonBlockForm(node, config.options)
                  ELSE Nothing(node)
       IN /\ node' = out.node
          /\ last' = Call("MustacheStatement", NoRaw, node, gate, out,
                          IF ~gate THEN Line(node.end.line)
                          ELSE IF "validateCloseBrace" \in out.called THEN Line(out.vp.line)
                          ELSE Undefined)
    /\ visits' = visits + 1
    /\ UNCHANGED config

\* mutant: the callback does not look at processElements
ElementNodeWithoutOption ==
    /\ config.kind = "options"
    /\ node.type = "ElementNode"
    /\ visits < MaxVisits
    /\ LET gate == canApplyRule(node, config.options)
           out == IF gate THEN validateElement(node, config.options)
                  ELSE Nothing(node)
       IN /\ node' = out.node
          /\ last' = Call("ElementNode", NoRaw, node, gate, out,
                          IF ProcessElements(config.options) /\ ~out.threw
                          THEN Line(node.end.line) ELSE Undefined)
    /\ visits' = visits + 1
    /\ UNCHANGED config

ElementNode ==
    /\ config.kind = "options"
    /\ node.type = "ElementNode"
    /\ visits < MaxVisits
    /\ LET gate == canApplyRule(node, config.options)
           out == IF ProcessElements(config.options) /\ gate
                  THEN validateElement(node, config.options)
                  ELSE Nothing(node)
       IN /\ node' = out.node
          /\ last' = Call("ElementNode", NoRaw, node, gate, out,
                          IF ProcessElements(config.options) /\ ~out.threw
                          THEN Line(node.end.line) ELSE Undefined)
    /\ visits' = visits + 1
    /\ UNCHANGED config

Next == ParseConfig \/ Preprocess \/ BlockStatement \/ MustacheStatement \/ ElementNode

Spec == Init /\ [][Next]_vars

\* validateParams called on its own, whatever the node holds
CallValidateParams ==
    /\ config.kind = "options"
    /\ node.type # "none"
    /\ visits < MaxVisits
    /\ LET out == WithParams(Nothing(node), validateParams(node, config.options))
       IN /\ node' = out.node
          /\ last' = Call("validateParams", NoRaw, node,
                          canApplyRule(node, config.options), out,
                          IF out.threw THEN Undefined ELSE Line(out.vp.line))
    /\ visits' = visits + 1
    /\ UNCHANGED config

NextUnit == ParseConfig \/ Preprocess \/ CallValidateParams

SpecUnit == Init /\ [][NextUnit]_vars


(***************************************************************************)
(* Properties.                                                             *)
(***************************************************************************)
VisitorOps == {"BlockStatement", "MustacheStatement", "ElementNode"}

\* the last step was a visitor callback
Visited == last.op \in VisitorOps

\* diagnostics of one kind among those the last call logged
LogsOf(kinds) == { i \in 1..Len(last.out.logs) : last.out.logs[i].what \in kinds }

\* the entries of a node, in the order validateParams walks them
EntriesOf(n) == IF n.type = "ElementNode" THEN n.attributes ELSE n.params \o n.pairs

\* where the opening invocation or tag closes, in the words of the gate
OpeningEnd(n) ==
    CASE n.type = "BlockStatement" -> n.programStart
      [] n.type = "ElementNode" /\ n.children # <<>> -> n.children[1].start
      [] OTHER -> n.end

\* the gate, stated on the node and the options
Applicable(n, maxLength) ==
    \/ OpeningEnd(n).line # n.start.line
    \/ /\ OpeningEnd(n).line = n.start.line
       /\ OpeningEnd(n).column - n.start.column > maxLength

\* C1: a visitor callback logs, and calls a validator, only if the gate is true
\* of the node and, for a markup element, processElements is enabled; otherwise
\* the visit yields zero diagnostics whatever the layout of the node.
C1_NoDiagnosticUnlessGated ==
    Visited =>
        LET n == last.before
            allowed == /\ Applicable(n, config.options.maxLength)
                       /\ (n.type = "ElementNode" =>
                              /\ "processElements" \in DOMAIN config.options
                              /\ config.options.processElements = TRUE)
        IN ~allowed => last.out.logs = <<>> /\ last.out.called = {}

\* a markup element of several lines whose first attribute is misplaced, visited
\* with processElements off or unset: nothing is logged
C1_Witness ==
    /\ last.op = "ElementNode"
    /\ Applicable(last.before, config.options.maxLength)
    /\ ~ProcessElements(config.options)
    /\ Len(last.before.attributes) > 0
    /\ last.before.attributes[1].start.line # last.before.start.line + 1
    /\ last.out.logs = <<>>

\* C2: the gate is true exactly when the opening invocation ends on another line
\* than the node starts, or on the same line more than maxLength columns on; the
\* end is the body start of a block, the first child's start of an element with
\* children, the node's own end otherwise.
C2_GateIsWidthOrMultiLine ==
    Visited =>
        last.gate = Applicable(last.before, config.options.maxLength)

\* a one-line opening invocation of width exactly maxLength: not applicable
C2_Witness ==
    /\ Visited
    /\ OpeningEnd(last.before).line = last.before.start.line
    /\ OpeningEnd(last.before).column - last.before.start.column = config.options.maxLength
    /\ ~last.gate

\* what the claim says parseConfig makes of a raw value (an array read as a
\* mapping that holds none of the three keys)
Classified(raw) ==
    CASE raw.shape = "boolean" /\ raw.bool ->
            Returned("options", [maxLength |-> 80, indentation |-> 2, processElements |-> TRUE])
      [] raw.shape = "boolean" /\ ~raw.bool -> Returned("disabled", NoRecord)
      [] raw.shape = "undefined" -> Returned("disabled", NoRecord)
      [] raw.shape \in {"mapping", "array"} ->
            Returned("options",
                [f \in {"maxLength", "indentation"}
                         \cup (IF "process-elements" \in DOMAIN raw.map
                               THEN {"processElements"} ELSE {}) |->
                    CASE f = "maxLength" ->
                            IF "open-invocation-max-len" \in DOMAIN raw.map
                            THEN raw.map["open-invocation-max-len"] ELSE 80
                      [] f = "indentation" ->
                            IF "indentation" \in DOMAIN raw.map
                            THEN raw.map["indentation"] ELSE 2
                      [] OTHER -> raw.map["process-elements"]])
      [] OTHER -> Thrown("usage")

\* C3: parseConfig gives 'disabled' for false or an absent value, the full
\* defaults for true, the defaults overridden key by key for a mapping, and
\* raises the usage error for a value of any other shape.
C3_ParseConfigClassifies ==
    last.op = "parseConfig" => config = Classified(last.raw)


\* the type of the value of an entry: of the value of a hash pair or of an
\* attribute, of the argument itself when it is positional
ValueKind(e) == IF e.type \in {"HashPair", "AttrNode"} THEN e.valueType ELSE e.type

\* the value of the entry is a sub-expression of several lines or an inline
\* invocation
Absorbs(e) ==
    \/ ValueKind(e) = "SubExpression" /\ e.start.line # e.end.line
    \/ ValueKind(e) = "MustacheStatement"

ParamKinds == {"positional param", "attribute", "htmlAttribute"}

\* a diagnostic of the last call that cites `actual` and expects `expected`
Logged(kinds, actual, expected) ==
    \E k \in LogsOf(kinds) :
        /\ last.out.logs[k].line = actual.line
        /\ last.out.logs[k].column = actual.column
        /\ last.out.logs[k].expectedLine = expected.line
        /\ last.out.logs[k].expectedColumn = expected.column

\* C4: for a node that is not synthetic and has no entry with a multi-line
\* sub-expression or an inline invocation as value, validateParams logs entry i
\* (0-based) exactly when its start differs, in line or in column, from
\* (node.start.line + 1 + i, node.start.column + indentation).
C4_MisplacedEntriesAreLogged ==
    ("validateParams" \in last.out.called /\ ~last.before.synthetic
        /\ \A i \in 1..Len(EntriesOf(last.before)) : ~Absorbs(EntriesOf(last.before)[i]))
    => LET n == last.before
           es == EntriesOf(n)
           place(i) == Loc(n.start.line + i, n.start.column + config.options.indentation)
           misplaced == { i \in 1..Len(es) :
                            \/ es[i].start.line # place(i).line
                            \/ es[i].start.column # place(i).column }
       IN /\ \A i \in 1..Len(es) :
                 Logged(ParamKinds, es[i].start, place(i)) <=> i \in misplaced
          /\ Cardinality(LogsOf(ParamKinds)) = Cardinality(misplaced)

\* every sequence of the node is empty
NoEntries(n) == n.params = <<>> /\ n.pairs = <<>> /\ n.attributes = <<>>

\* validateParams compared nothing, logged nothing and returned `line`
ReturnedUntouched(line) ==
    /\ ~last.out.threw
    /\ last.out.vp.expected = <<>>
    /\ last.out.logs = <<>>
    /\ last.out.vp.line = line

CloseKinds == {"close bracket", "close curly braces"}

\* C6: validateCloseBrace logs exactly one diagnostic when (end.line,
\* end.column - k) differs from (expectedLine, node.start.column) and none when
\* they are equal: end is where the opening closes, k is 1 for an element that
\* is not self-closing and 2 otherwise, expectedLine is what validateParams
\* returned for the node.
C6_CloseBraceAgainstReturnedLine ==
    "validateCloseBrace" \in last.out.called
    => LET n == last.before
           end == OpeningEnd(n)
           k == IF n.type = "ElementNode" /\ ~n.selfClosing THEN 1 ELSE 2
           actual == Loc(end.line, end.column - k)
           expected == Loc(last.out.vp.line, n.start.column)
       IN IF actual = expected
          THEN LogsOf(CloseKinds) = {}
          ELSE /\ Cardinality(LogsOf(CloseKinds)) = 1
               /\ Logged(CloseKinds, actual, expected)

\* the closing bracket of an element that is not self-closing sits where it is
\* expected, one column before the end of the opening tag: nothing is logged
C6_Witness ==
    /\ "validateCloseBrace" \in last.out.called
    /\ last.before.type = "ElementNode"
    /\ ~last.before.selfClosing
    /\ OpeningEnd(last.before) = Loc(last.out.vp.line, last.before.start.column + 1)
    /\ LogsOf(CloseKinds) = {}

\* C7, as stated: with at least one positional argument the block-parameter
\* clause is expected one line below the end of the last positional argument,
\* at the start column of the node.
C7_TailIsLastPositional ==
    ("validateBlockParams" \in last.out.called /\ last.before.params # <<>>)
    => last.out.bp.expected =
          Loc(Last(last.before.params).end.line + 1, last.before.start.column)

\* C7, amended: the clause is expected one line below the end of the
\* named-argument group whenever there are named arguments, and below the end of
\* the last positional argument only when there are none.
C7_TailIsHashWhenNamed ==
    ("validateBlockParams" \in last.out.called
        /\ (last.before.params # <<>> \/ last.before.pairs # <<>>))
    => LET n == last.before
           tail == IF n.pairs # <<>> THEN n.hashEnd ELSE Last(n.params).end
       IN last.out.bp.expected = Loc(tail.line + 1, n.start.column)

\* a block with positional and named arguments ending on different lines: the
\* clause is expected below the named arguments
C7_Witness ==
    /\ "validateBlockParams" \in last.out.called
    /\ last.before.params # <<>>
    /\ last.before.pairs # <<>>
    /\ last.before.hashEnd.line # Last(last.before.params).end.line
    /\ last.out.bp.expected.line = last.before.hashEnd.line + 1

\* the line expected after the i-th comparison of the last validateParams: the
\* line of the next comparison, or the line returned after the last entry
NextExpectedLine(i) ==
    IF i < Len(last.out.vp.expected) THEN last.out.vp.expected[i + 1].line
    ELSE last.out.vp.line

\* the comparisons of the last validateParams that were followed by another
\* comparison or by the return
Followed ==
    { i \in 1..Len(last.out.vp.expected) :
        i < Len(last.out.vp.expected) \/ ~last.out.threw }

\* C8, as stated: after an entry whose value is a multi-line sub-expression or an
\* inline invocation the next expected line is the end line of that value; after
\* any other entry it is the previous expected line plus one.
C8_NextLineIsValueEnd ==
    "validateParams" \in last.out.called
    => \A i \in Followed :
          LET e == EntriesOf(last.before)[i]
          IN NextExpectedLine(i) =
                IF Absorbs(e) THEN e.valueEndLine
                ELSE last.out.vp.expected[i].line + 1

\* C8, amended: after such an entry the next expected line is the end line of
\* that value plus one.
C8_NextLineIsValueEndPlusOne ==
    "validateParams" \in last.out.called
    => \A i \in Followed :
          LET e == EntriesOf(last.before)[i]
          IN NextExpectedLine(i) =
                IF Absorbs(e) THEN e.valueEndLine + 1
                ELSE last.out.vp.expected[i].line + 1

\* a sub-expression of two lines, found where it was expected, followed by
\* another entry: that entry is expected on the line after the sub-expression ends
C8_Witness ==
    /\ "validateParams" \in last.out.called
    /\ Len(last.out.vp.expected) >= 2
    /\ LET e == EntriesOf(last.before)[1]
       IN /\ ValueKind(e) = "SubExpression"
          /\ e.end.line = e.start.line + 1
          /\ e.start.line = last.out.vp.expected[1].line
          /\ last.out.vp.expected[2].line = e.end.line + 1

\* the visits that apply the correction of the synthetic block form
Corrects(n, cfg) ==
    /\ n.type = "BlockStatement"
    /\ n.synthetic
    /\ Applicable(n, cfg.maxLength)
    /\ n.params # <<>>

C10_ClosingTagAgainstLastChild ==
    (last.op = "ElementNode" /\ last.before.children # <<>>
        /\ Applicable(last.before, config.options.maxLength)
        /\ ProcessElements(config.options))
    => LET n == last.before
           lastChild == n.children[Len(n.children)]
           L == lastChild.end.line + (IF lastChild.type = "BlockStatement" THEN 1 ELSE 0)
           actual == Loc(n.end.line, n.end.column - (3 + n.tagLen))
           expected == Loc(L, n.start.column)
       IN IF actual = expected
          THEN LogsOf({"close tag"}) = {}
          ELSE /\ Cardinality(LogsOf({"close tag"})) = 1
               /\ Logged({"close tag"}, actual, expected)

\* an element without attributes whose last child is a block form and whose
\* closing tag sits on the line after that block: nothing is logged for it
C10_Witness ==
    /\ last.op = "ElementNode"
    /\ last.before.attributes = <<>>
    /\ last.before.children # <<>>
    /\ Last(last.before.children).type = "BlockStatement"
    /\ "validateClosingTag" \in last.out.called
    /\ last.before.end.line = Last(last.before.children).end.line + 1
    /\ LogsOf({"close tag"}) = {}

====
